---- MODULE Spec2Model ----
(***************************************************************************)
(* Model of NetworKit's ClusteringCoefficient                              *)
(* (src/src/cpp/properties/ClusteringCoefficient.cpp): exactLocal,         *)
(* avgLocal, approxAvgLocal, exactGlobal and approxGlobal over a read-only *)
(* graph.  The Graph class itself is not part of the sources at hand; its  *)
(* read-only primitives (degree, forEdgesOf, hasEdge, forNodes,            *)
(* randomNode, randomNeighbor, upperNodeIdBound) are modelled from the     *)
(* data model of the specification: adjacency entries with multiplicity,   *)
(* self-loops stored once, ids below the bound possibly non-existent.      *)
(***************************************************************************)
EXTENDS Integers, FiniteSets, Sequences, TLC

VARIABLES G, op, pc, trials, k, triangles, r, v, u, w, weight, psum,
          coefficient, result, valid, skippedAtZero, redraws

vars == <<G, op, pc, trials, k, triangles, r, v, u, w, weight, psum,
          coefficient, result, valid, skippedAtZero, redraws>>

(* ------------------------------ bounds --------------------------------- *)
MaxNodes == 3

MaxMult == 2

MaxEdges == 4

MaxTrials == 2

CountBits == 6

RedrawWrap == 2

(* count / index are unsigned integers; the model keeps the wrap-around at *)
(* a reduced width of CountBits bits.                                      *)
CountMod == 2 ^ CountBits

Inc(a) == (a + 1) % CountMod

Dec(a) == (a + CountMod - 1) % CountMod

Mul(a, b) == (a * b) % CountMod

Add(a, b) == (a + b) % CountMod

(* ------------------------------ doubles -------------------------------- *)
(* A double is modelled as an exact fraction [n, d] in lowest terms;       *)
(* d = 0 stands for the non-finite results of a division by zero:          *)
(* 0/0 is NaN, x/0 with x > 0 is +infinity.                                *)
RECURSIVE GCD(_, _)
GCD(a, b) == IF b = 0 THEN a ELSE GCD(b, a % b)

NaN == [n |-> 0, d |-> 0]

Infinity == [n |-> 1, d |-> 0]

Zero == [n |-> 0, d |-> 1]

DoubleDiv(a, b) ==
    IF b = 0 THEN (IF a = 0 THEN NaN ELSE Infinity)
    ELSE LET g == GCD(a, b) IN [n |-> a \div g, d |-> b \div g]

DoubleAdd(x, y) ==
    IF x = NaN \/ y = NaN THEN NaN
    ELSE IF x.d = 0 \/ y.d = 0 THEN Infinity
    ELSE DoubleDiv(x.n * y.d + y.n * x.d, x.d * y.d)

DoubleDivBy(x, c) ==
    IF x = NaN THEN NaN
    ELSE IF x.d = 0 THEN Infinity
    ELSE DoubleDiv(x.n, x.d * c)

(* ------------------------------- graph --------------------------------- *)
Ids(g) == 0 .. (g.z - 1)

RECURSIVE SumFn(_, _)
SumFn(f, n) == IF n = 0 THEN 0 ELSE SumFn(f, n - 1) + f[n - 1]

upperNodeIdBound(g) == g.z

hasNode(g, a) == a \in Ids(g) /\ g.exists[a]

(* number of adjacency entries of a; a self-loop is one entry *)
degree(g, a) == SumFn([b \in Ids(g) |-> g.mult[a][b]], g.z)

hasEdge(g, a, b) == g.mult[a][b] > 0

(* the nodes randomNeighbor(a) can return *)
Neighbors(g, a) == {b \in Ids(g) : g.mult[a][b] > 0}

ExistingNodes(g) == {a \in Ids(g) : g.exists[a]}

UPairs(S) == {p \in S \X S : p[1] <= p[2]}

RECURSIVE SumSet(_, _)
SumSet(f, S) ==
    IF S = {} THEN 0
    ELSE LET x == CHOOSE y \in S : TRUE IN f[x] + SumSet(f, S \ {x})

MkGraph(zz, ex, m) ==
    [z |-> zz,
     exists |-> [a \in 0 .. (zz - 1) |-> a \in ex],
     mult |-> [a \in 0 .. (zz - 1) |-> [b \in 0 .. (zz - 1) |->
                 IF a \in ex /\ b \in ex
                 THEN (IF a <= b THEN m[<<a, b>>] ELSE m[<<b, a>>])
                 ELSE 0]]]

Graphs ==
    UNION {UNION {{MkGraph(zz, ex, m) :
                     m \in {mm \in [UPairs(ex) -> 0 .. MaxMult] :
                              SumSet(mm, UPairs(ex)) <= MaxEdges}} :
                  ex \in SUBSET (0 .. (zz - 1))} :
           zz \in 0 .. MaxNodes}

(* ----------------------------- exactLocal ------------------------------ *)
(* u's neighbours without u itself (the unordered_set of lines 22-27) *)
uNeighbors(g, a) == {b \in Ids(g) : g.mult[a][b] > 0 /\ b # a}

(* the counter of lines 32-39: for each edge (a,b), for each edge (b,c),  *)
(* count when c is in uNeighbors                                          *)
LocalTriangles(g, a) ==
    SumFn([b \in Ids(g) |->
             g.mult[a][b] *
             SumFn([c \in Ids(g) |->
                      IF c \in uNeighbors(g, a) THEN g.mult[b][c] ELSE 0],
                   g.z)],
          g.z)

LocalCoefficient(g, a) ==
    LET d == degree(g, a) IN
    IF d < 2 THEN Zero
    ELSE DoubleDiv(LocalTriangles(g, a) % CountMod, Mul(d, Dec(d)))

(* entries of non-existent ids keep the vector's initial 0.0 *)
exactLocal(g) ==
    [a \in Ids(g) |-> IF g.exists[a] THEN LocalCoefficient(g, a) ELSE Zero]

(* ------------------------------ avgLocal ------------------------------- *)
(* the filter of line 59 weakened to "has an edge" *)
Counted_AnyDegree(g, a) == degree(g, a) >= 1

Counted(g, a) == degree(g, a) >= 2

RECURSIVE AvgLoop(_, _, _, _, _)
AvgLoop(g, coefficients, a, sum, size) ==
    IF a = g.z THEN DoubleDivBy(sum, size)
    ELSE IF g.exists[a] /\ Counted(g, a)
         THEN AvgLoop(g, coefficients, a + 1,
                      DoubleAdd(sum, coefficients[a]), Inc(size))
         ELSE AvgLoop(g, coefficients, a + 1, sum, size)

avgLocal(g) == AvgLoop(g, exactLocal(g), 0, Zero, 0)

(* ----------------------------- exactGlobal ----------------------------- *)
GlobalTriangles(g, a) ==
    IF degree(g, a) > 1
    THEN SumFn([b \in Ids(g) |->
                  g.mult[a][b] *
                  SumFn([c \in Ids(g) |->
                           IF hasEdge(g, a, c) THEN g.mult[b][c] ELSE 0],
                        g.z)],
               g.z) % CountMod
    ELSE 0

TripleMass(g, a) == Mul(degree(g, a), Dec(degree(g, a)))

(* parallelSumForNodes: sum over the existing nodes, accumulated as double *)
exactGlobal(g) ==
    LET denominator == SumFn([a \in Ids(g) |->
                                IF g.exists[a] THEN TripleMass(g, a) ELSE 0],
                             g.z)
        cc == SumFn([a \in Ids(g) |->
                       IF g.exists[a] THEN GlobalTriangles(g, a) ELSE 0],
                    g.z)
    IN DoubleDiv(cc, denominator)

(* ------------------- approxGlobal: weighted sampler -------------------- *)
(* lines 146-151: weight is value-initialised to 0 and written only at    *)
(* the ids forNodes visits                                                *)
RECURSIVE PrefixLoop(_, _, _, _)
PrefixLoop(g, a, wt, ps) ==
    IF a = g.z THEN [weight |-> wt, psum |-> ps]
    ELSE IF g.exists[a]
         THEN LET ps2 == Add(ps, TripleMass(g, a))
              IN PrefixLoop(g, a + 1, [wt EXCEPT ![a] = ps2], ps2)
         ELSE PrefixLoop(g, a + 1, wt, ps)

PrefixSum(g) == PrefixLoop(g, 0, [a \in Ids(g) |-> 0], 0)

(* lines 162-176 *)
RECURSIVE BinarySearch(_, _, _, _)
BinarySearch(wt, rr, low, high) ==
    IF ~(low < high) THEN low
    ELSE LET middle == (low + high) \div 2 IN
         IF wt[middle] < rr THEN BinarySearch(wt, rr, middle + 1, high)
         ELSE IF wt[middle] > rr THEN BinarySearch(wt, rr, low, middle)
         ELSE middle

(* Aux::Random::integer(upperBound): any value of [0, upperBound] *)
RandomInteger(upperBound) == 0 .. upperBound

(* ------------------------------- state --------------------------------- *)
(* G: the graph handed to the call; op: the operation called; pc: the      *)
(* position inside it; k, triangles, r, v, u, w, weight, psum: the locals  *)
(* of the approximate estimators; coefficient, result: what is returned;   *)
(* valid: history variable counting the draws that passed the degree test; *)
(* skippedAtZero: history variable, a draw was discarded while k = 0;      *)
(* redraws: history variable, the redraws of the running while loop,       *)
(* counted modulo RedrawWrap.                                              *)
NoWeight == <<>>

Init ==
    /\ G \in Graphs
    /\ op = "none"
    /\ pc = "idle"
    /\ trials = 0
    /\ k = 0
    /\ triangles = 0
    /\ r = 0
    /\ v = 0
    /\ u = 0
    /\ w = 0
    /\ weight = NoWeight
    /\ psum = 0
    /\ coefficient = <<>>
    /\ result = Zero
    /\ valid = 0
    /\ skippedAtZero = FALSE
    /\ redraws = 0

locals ==
    <<trials, k, triangles, r, v, u, w, weight, psum, valid, skippedAtZero,
      redraws>>

CallExactLocal ==
    /\ pc = "idle"
    /\ op' = "exactLocal"
    /\ coefficient' = exactLocal(G)
    /\ pc' = "done"
    /\ UNCHANGED <<G, result, locals>>

CallAvgLocal ==
    /\ pc = "idle"
    /\ op' = "avgLocal"
    /\ result' = avgLocal(G)
    /\ pc' = "done"
    /\ UNCHANGED <<G, coefficient, locals>>

CallExactGlobal ==
    /\ pc = "idle"
    /\ op' = "exactGlobal"
    /\ result' = exactGlobal(G)
    /\ pc' = "done"
    /\ UNCHANGED <<G, coefficient, locals>>

(* --------------------------- approxAvgLocal ---------------------------- *)
(* the discard without its --k: the loop's ++k counts the discarded draw *)
SkipTrial_Counted(kk) == Inc(kk)

(* --k; continue; followed by the loop's ++k *)
SkipTrial(kk) == Inc(Dec(kk))

(* randomNode() needs a node to return *)
CallApproxAvgLocal ==
    /\ pc = "idle"
    /\ ExistingNodes(G) # {}
    /\ \E t \in 1 .. MaxTrials : trials' = t
    /\ op' = "approxAvgLocal"
    /\ k' = 0
    /\ triangles' = 0
    /\ pc' = "loop"
    /\ UNCHANGED <<G, r, v, u, w, weight, psum, coefficient, result, valid,
                   skippedAtZero, redraws>>

AAL_Sample ==
    /\ op = "approxAvgLocal" /\ pc = "loop" /\ k < trials
    /\ \E x \in ExistingNodes(G) :
         IF degree(G, x) < 2
         THEN /\ k' = SkipTrial(k)
              /\ skippedAtZero' = (skippedAtZero \/ k = 0)
              /\ UNCHANGED <<v, pc, valid, redraws>>
         ELSE /\ v' = x
              /\ pc' = "neighbors"
              /\ valid' = valid + 1
              /\ UNCHANGED <<k, skippedAtZero, redraws>>
    /\ UNCHANGED <<G, op, trials, triangles, r, u, w, weight, psum,
                   coefficient, result>>

AAL_Neighbors ==
    /\ op = "approxAvgLocal" /\ pc = "neighbors"
    /\ u' \in Neighbors(G, v)
    /\ w' \in Neighbors(G, v)
    /\ pc' = "while"
    /\ UNCHANGED <<G, op, trials, k, triangles, r, v, weight, psum,
                   coefficient, result, valid, skippedAtZero, redraws>>

AAL_Redraw ==
    /\ op = "approxAvgLocal" /\ pc = "while" /\ u = w
    /\ w' \in Neighbors(G, v)
    /\ redraws' = (redraws + 1) % RedrawWrap
    /\ UNCHANGED <<G, op, pc, trials, k, triangles, r, v, u, weight, psum,
                   coefficient, result, valid, skippedAtZero>>

AAL_HasEdge ==
    /\ op = "approxAvgLocal" /\ pc = "while" /\ u # w
    /\ triangles' = IF hasEdge(G, u, w) THEN triangles + 1 ELSE triangles
    /\ k' = Inc(k)
    /\ pc' = "loop"
    /\ v' = 0 /\ u' = 0 /\ w' = 0 /\ redraws' = 0
    /\ UNCHANGED <<G, op, trials, r, weight, psum, coefficient, result,
                   valid, skippedAtZero>>

AAL_Return ==
    /\ op = "approxAvgLocal" /\ pc = "loop" /\ ~(k < trials)
    /\ result' = DoubleDiv(triangles, trials)
    /\ pc' = "done"
    /\ UNCHANGED <<G, op, coefficient, locals>>

(* ---------------------------- approxGlobal ----------------------------- *)
CallApproxGlobal ==
    /\ pc = "idle"
    /\ \E t \in 1 .. MaxTrials : trials' = t
    /\ op' = "approxGlobal"
    /\ weight' = PrefixSum(G).weight
    /\ psum' = PrefixSum(G).psum
    /\ k' = 0
    /\ triangles' = 0
    /\ pc' = "loop"
    /\ UNCHANGED <<G, r, v, u, w, coefficient, result, valid, skippedAtZero,
                   redraws>>

(* lines 159-176: the draw and the binary search *)
AG_Sample ==
    /\ op = "approxGlobal" /\ pc = "loop" /\ k < trials
    /\ \E rr \in RandomInteger(Dec(psum)) :
         /\ r' = rr
         /\ v' = BinarySearch(weight, rr, 0, upperNodeIdBound(G))
    /\ pc' = "degree"
    /\ UNCHANGED <<G, op, trials, k, triangles, u, w, weight, psum,
                   coefficient, result, valid, skippedAtZero, redraws>>

(* lines 178-184.  G.degree(v) with v = upperNodeIdBound reads past the   *)
(* end of the degree array: the call crashes or yields any value.         *)
AG_Degree ==
    /\ op = "approxGlobal" /\ pc = "degree"
    /\ \E crash \in (IF v < G.z THEN {FALSE} ELSE BOOLEAN) :
       \E vDeg \in (IF v < G.z THEN {degree(G, v)} ELSE {0, 2}) :
         IF crash
         THEN /\ pc' = "crash"
              /\ UNCHANGED <<k, r, v, valid, skippedAtZero, redraws>>
         ELSE IF vDeg < 2
         THEN /\ k' = SkipTrial(k)
              /\ skippedAtZero' = (skippedAtZero \/ k = 0)
              /\ pc' = "loop"
              /\ r' = 0 /\ v' = 0
              /\ UNCHANGED <<valid, redraws>>
         ELSE /\ pc' = "neighbors"
              /\ r' = 0
              /\ valid' = valid + 1
              /\ UNCHANGED <<k, v, skippedAtZero, redraws>>
    /\ UNCHANGED <<G, op, trials, triangles, u, w, weight, psum,
                   coefficient, result>>

(* randomNeighbor(v) of an id past the end reads a foreign adjacency      *)
(* array: a crash, or any id (G.z stands for the ids that are no index)   *)
RandomNeighborOutcomes(g, a) ==
    IF a < g.z THEN Neighbors(g, a) ELSE 0 .. g.z

AG_Crash ==
    /\ op = "approxGlobal" /\ pc \in {"neighbors", "while"}
    /\ \/ v >= G.z
       \/ pc = "while" /\ u # w /\ (u >= G.z \/ w >= G.z)
    /\ pc' = "crash"
    /\ UNCHANGED <<G, op, coefficient, result, locals>>

AG_Neighbors ==
    /\ op = "approxGlobal" /\ pc = "neighbors"
    /\ u' \in RandomNeighborOutcomes(G, v)
    /\ w' \in RandomNeighborOutcomes(G, v)
    /\ pc' = "while"
    /\ UNCHANGED <<G, op, trials, k, triangles, r, v, weight, psum,
                   coefficient, result, valid, skippedAtZero, redraws>>

AG_Redraw ==
    /\ op = "approxGlobal" /\ pc = "while" /\ u = w
    /\ w' \in RandomNeighborOutcomes(G, v)
    /\ redraws' = (redraws + 1) % RedrawWrap
    /\ UNCHANGED <<G, op, pc, trials, k, triangles, r, v, u, weight, psum,
                   coefficient, result, valid, skippedAtZero>>

AG_HasEdge ==
    /\ op = "approxGlobal" /\ pc = "while" /\ u # w
    /\ \E hit \in (IF u < G.z /\ w < G.z THEN {hasEdge(G, u, w)} ELSE BOOLEAN) :
         triangles' = IF hit THEN triangles + 1 ELSE triangles
    /\ k' = Inc(k)
    /\ pc' = "loop"
    /\ v' = 0 /\ u' = 0 /\ w' = 0 /\ redraws' = 0
    /\ UNCHANGED <<G, op, trials, r, weight, psum, coefficient, result,
                   valid, skippedAtZero>>

AG_Return ==
    /\ op = "approxGlobal" /\ pc = "loop" /\ ~(k < trials)
    /\ result' = DoubleDiv(triangles, trials)
    /\ pc' = "done"
    /\ UNCHANGED <<G, op, coefficient, locals>>

Next ==
    \/ CallExactLocal
    \/ CallAvgLocal
    \/ CallExactGlobal
    \/ CallApproxAvgLocal
    \/ AAL_Sample
    \/ AAL_Neighbors
    \/ AAL_Redraw
    \/ AAL_HasEdge
    \/ AAL_Return
    \/ CallApproxGlobal
    \/ AG_Sample
    \/ AG_Degree
    \/ AG_Crash
    \/ AG_Neighbors
    \/ AG_Redraw
    \/ AG_HasEdge
    \/ AG_Return

Spec == Init /\ [][Next]_vars

(* The random source is fair: a neighbour that can be drawn is not        *)
(* avoided forever, and a call that can take a step takes it.             *)
FairSpec ==
    /\ Spec
    /\ WF_vars(Next)
    /\ WF_vars(AAL_Redraw /\ w' # u)
    /\ WF_vars(AG_Redraw /\ w' # u)

(* ============================ properties =============================== *)
Returned(o) == op = o /\ pc = "done"

InUnitInterval(x) == x.d > 0 /\ 0 <= x.n /\ x.n <= x.d

NoParallelEdges(g) == \A a, b \in Ids(g) : g.mult[a][b] <= 1

(* every id below the bound exists, no self-loop, no parallel edge *)
SimpleDense(g) ==
    /\ NoParallelEdges(g)
    /\ \A a \in Ids(g) : g.exists[a] /\ g.mult[a][a] = 0

(* C1: every entry of exactLocal at an existing node lies in [0, 1], and  *)
(* is exactly 0.0 where the degree is below 2 (self-loops and             *)
(* non-existent ids allowed; stated here for graphs without parallel      *)
(* edges).                                                                *)
C1_ExactLocalInUnitInterval ==
    (Returned("exactLocal") /\ NoParallelEdges(G)) =>
        \A a \in ExistingNodes(G) :
            /\ InUnitInterval(coefficient[a])
            /\ degree(G, a) < 2 => coefficient[a] = Zero

DegreeAtLeast2(g) == {a \in ExistingNodes(g) : degree(g, a) >= 2}

(* three distinct, pairwise adjacent nodes *)
HasTriangle(g) ==
    \E a, b, c \in ExistingNodes(g) :
        /\ a # b /\ b # c /\ a # c
        /\ hasEdge(g, a, b) /\ hasEdge(g, b, c) /\ hasEdge(g, a, c)

(* C2: on a graph without triangles exactGlobal returns 0.0 and every     *)
(* exactLocal entry of an existing node is 0.0 (stated here for graphs    *)
(* without parallel edges in which some node has degree >= 2, so that the *)
(* global ratio has a non-zero denominator).                              *)
C2_NoTriangleGivesZero ==
    (~HasTriangle(G) /\ NoParallelEdges(G) /\ DegreeAtLeast2(G) # {}) =>
        /\ Returned("exactGlobal") => result = Zero
        /\ Returned("exactLocal") =>
              \A a \in ExistingNodes(G) : coefficient[a] = Zero

RECURSIVE SumOver(_, _)
SumOver(f, S) ==
    IF S = {} THEN Zero
    ELSE LET x == CHOOSE y \in S : TRUE IN DoubleAdd(f[x], SumOver(f, S \ {x}))

(* C3: avgLocal is the mean of the exactLocal entries over exactly the    *)
(* existing nodes of degree >= 2; without such a node the result is       *)
(* not-a-number, which differs from the numeric result 0.0.               *)
C3_AvgLocalMeanOrNaN ==
    Returned("avgLocal") =>
        LET S == DegreeAtLeast2(G) IN
        IF S = {}
        THEN result = NaN /\ result # Zero
        ELSE /\ result.d > 0
             /\ result = DoubleDivBy(SumOver(exactLocal(G), S), Cardinality(S))

C3_Witness ==
    /\ Returned("avgLocal")
    /\ DegreeAtLeast2(G) = {}
    /\ \E a \in ExistingNodes(G) : degree(G, a) = 1
    /\ result = NaN

(* C4: with total_mass = 0 approxGlobal fails explicitly: it makes no     *)
(* draw from the undefined range, and neither crashes nor returns a       *)
(* number (stated here for graphs that have a node).                      *)
C4_ZeroMassFailsExplicitly ==
    (op = "approxGlobal" /\ psum = 0 /\ ExistingNodes(G) # {}) =>
        pc \notin {"degree", "neighbors", "while", "crash", "done"}

(* C5: of the total_mass values of r in [0, total_mass), exactly          *)
(* degree(a)*(degree(a)-1) are mapped to each existing node a (stated     *)
(* here for simple graphs in which every id exists).                      *)
C5_DrawProportionalToTripleMass ==
    (op = "approxGlobal" /\ psum > 0 /\ SimpleDense(G)) =>
        \A a \in ExistingNodes(G) :
            Cardinality({rr \in 0 .. (psum - 1) :
                           BinarySearch(weight, rr, 0, upperNodeIdBound(G)) = a})
              = TripleMass(G, a)

C7_RedrawLoopEnds ==
    (pc = "while" /\ u = w /\ v < G.z /\ G.mult[v][v] = 0)
        ~> ~(pc = "while" /\ u = w)

(* unordered pairs of distinct, mutually adjacent neighbours of a *)
T(g, a) ==
    Cardinality({p \in uNeighbors(g, a) \X uNeighbors(g, a) :
                   p[1] < p[2] /\ hasEdge(g, p[1], p[2])})

(* C8: at a node of degree d >= 2 the triangle counter of exactLocal is   *)
(* exactly 2*T(u), and the coefficient is 2*T(u) / (d*(d-1)) (stated here *)
(* for graphs without parallel edges).                                    *)
C8_CounterIsTwiceTriangles ==
    (Returned("exactLocal") /\ NoParallelEdges(G)) =>
        \A a \in ExistingNodes(G) :
            degree(G, a) >= 2 =>
                /\ LocalTriangles(G, a) = 2 * T(G, a)
                /\ coefficient[a] =
                     DoubleDiv(2 * T(G, a), degree(G, a) * (degree(G, a) - 1))

(* C9: for r in [0, total_mass) the binary search ends at the smallest    *)
(* index whose cumulative value is >= r, and that index is v (stated here *)
(* for simple graphs in which every id exists).                           *)
C9_SearchFindsSmallestIndex ==
    (op = "approxGlobal" /\ pc = "degree" /\ psum > 0 /\ SimpleDense(G)) =>
        /\ v < upperNodeIdBound(G)
        /\ weight[v] >= r
        /\ \A i \in 0 .. (v - 1) : weight[i] < r

(* C10: the index the binary search produces is an existing node id below *)
(* the upper node id bound when degree(v) is called on it.                *)
C10_SampledIdIsExistingNode ==
    (op = "approxGlobal" /\ pc = "degree" /\ psum > 0) => hasNode(G, v)

====
